---- MODULE Spec2Model ----
(***************************************************************************)
(* Model of the Orion chat service (src/app.py): the in-memory stores, the *)
(* session routes and the /chat handler, the latter split at its accesses  *)
(* to shared state so that concurrent requests interleave as the threaded     *)
(* server lets them.  Texts are sequences of Unicode code points.          *)
(***************************************************************************)
EXTENDS Integers, Sequences, FiniteSets, TLC

(***************************************************************************)
(* Bounds of the model.                                                    *)
(***************************************************************************)
\* requests that are accepted: chat turns and successful session routes
MaxRequests == 1
\* session ids that generate_id ever hands out (the first one is in Init)
MaxSessions == 2
\* largest value the wall clock returns (the stored history dates from 0,
\* the service is running at 1)
MaxClock == 1
\* longest text detect_language is called on by itself
MaxTextLen == 3
\* accepted chat turns in a sequence of turns made one after another
MaxTurns == 2

(***************************************************************************)
(* Program constants.                                                      *)
(***************************************************************************)
\* app.py:512  len(user_message) > 1200
MaxMessageLen == 1200
\* app.py:558  chat_messages[session_id][-20:]
HistoryWindow == 20
\* app.py:582  for attempt in range(3)
MaxAttempts == 3
\* app.py:111  first_message.strip()[:40]
TitleLen == 40

DEFAULT_MODEL == "mistralai/mistral-7b-instruct"

\* app.py:35-41, cost_per_1k in units of 10^-4 dollars
AVAILABLE_MODELS ==
    [m \in {"mistralai/mistral-7b-instruct", "openai/gpt-3.5-turbo",
            "anthropic/claude-3-haiku", "google/gemini-pro",
            "meta-llama/llama-2-70b-chat"} |->
        CASE m = "mistralai/mistral-7b-instruct" -> 2
          [] m = "openai/gpt-3.5-turbo" -> 15
          [] m = "anthropic/claude-3-haiku" -> 25
          [] m = "google/gemini-pro" -> 5
          [] OTHER -> 9]

\* app.py:615  fallback {"cost_per_1k": 0.0002}
FallbackCostPer1k == 2

(***************************************************************************)
(* String literals of the source, as code points.                          *)
(***************************************************************************)
base_rules == <<89, 111, 117, 32, 97, 114, 101, 32, 79, 114, 105, 111, 110, 44, 32, 97, 32,
    104, 105, 103, 104, 45, 113, 117, 97, 108, 105, 116, 121, 32, 65, 73, 32, 97, 115, 115,
    105, 115, 116, 97, 110, 116, 46, 10, 10, 82, 117, 108, 101, 115, 58, 10, 45, 32, 66,
    101, 32, 104, 101, 108, 112, 102, 117, 108, 44, 32, 99, 108, 101, 97, 114, 44, 32, 97,
    110, 100, 32, 99, 111, 110, 99, 105, 115, 101, 10, 45, 32, 78, 111, 32, 111, 118, 101,
    114, 45, 101, 120, 112, 108, 97, 105, 110, 105, 110, 103, 10, 45, 32, 83, 104, 111, 114,
    116, 32, 97, 110, 115, 119, 101, 114, 115, 32, 98, 121, 32, 100, 101, 102, 97, 117, 108,
    116, 32, 40, 50, 45, 52, 32, 115, 101, 110, 116, 101, 110, 99, 101, 115, 41, 10, 45, 32,
    68, 101, 116, 97, 105, 108, 101, 100, 32, 111, 110, 108, 121, 32, 119, 104, 101, 110,
    32, 97, 115, 107, 101, 100, 10, 45, 32, 78, 101, 118, 101, 114, 32, 98, 101, 32, 114,
    117, 100, 101, 32, 111, 114, 32, 105, 110, 97, 112, 112, 114, 111, 112, 114, 105, 97,
    116, 101, 10, 45, 32, 85, 115, 101, 32, 109, 97, 114, 107, 100, 111, 119, 110, 32, 102,
    111, 114, 109, 97, 116, 116, 105, 110, 103, 32, 102, 111, 114, 32, 99, 111, 100, 101,
    44, 32, 108, 105, 115, 116, 115, 44, 32, 97, 110, 100, 32, 101, 109, 112, 104, 97, 115,
    105, 115, 32, 119, 104, 101, 110, 32, 104, 101, 108, 112, 102, 117, 108>>

HinglishSuffix == <<10, 82, 101, 112, 108, 121, 32, 105, 110, 32, 110, 97, 116, 117, 114,
    97, 108, 32, 72, 105, 110, 103, 108, 105, 115, 104, 32, 40, 72, 105, 110, 100, 105, 32,
    105, 110, 32, 69, 110, 103, 108, 105, 115, 104, 32, 115, 99, 114, 105, 112, 116, 41, 46,
    32, 67, 97, 115, 117, 97, 108, 32, 116, 111, 110, 101, 46>>

HindiSuffix == <<10, 82, 101, 112, 108, 121, 32, 105, 110, 32, 112, 114, 111, 112, 101, 114,
    32, 72, 105, 110, 100, 105, 32, 40, 68, 101, 118, 97, 110, 97, 103, 97, 114, 105, 32,
    115, 99, 114, 105, 112, 116, 41, 46>>

EnglishSuffix == <<10, 82, 101, 112, 108, 121, 32, 105, 110, 32, 110, 97, 116, 117, 114, 97,
    108, 32, 69, 110, 103, 108, 105, 115, 104, 46>>

NewChatTitle == <<78, 101, 119, 32, 67, 104, 97, 116>>

Ellipsis == <<46, 46, 46>>

NoResponseText == <<78, 111, 32, 114, 101, 115, 112, 111, 110, 115, 101, 46>>

ReplyInvalidRequest == <<73, 110, 118, 97, 108, 105, 100, 32, 114, 101, 113, 117, 101, 115,
    116, 46>>

ReplyEmptyMessage == <<69, 109, 112, 116, 121, 32, 109, 101, 115, 115, 97, 103, 101, 46>>

ReplyTooLong == <<77, 101, 115, 115, 97, 103, 101, 32, 116, 111, 111, 32, 108, 111, 110,
    103, 46>>

ReplySessionNotFound == <<83, 101, 115, 115, 105, 111, 110, 32, 110, 111, 116, 32, 102, 111,
    117, 110, 100, 46>>

ReplyNothingToRegenerate == <<78, 111, 116, 104, 105, 110, 103, 32, 116, 111, 32, 114, 101,
    103, 101, 110, 101, 114, 97, 116, 101, 46>>

ReplyUnavailable == <<83, 101, 114, 118, 105, 99, 101, 32, 116, 101, 109, 112, 111, 114, 97,
    114, 105, 108, 121, 32, 117, 110, 97, 118, 97, 105, 108, 97, 98, 108, 101, 46, 32, 80,
    108, 101, 97, 115, 101, 32, 116, 114, 121, 32, 97, 103, 97, 105, 110, 32, 108, 97, 116,
    101, 114, 46>>

ReplyTimedOut == <<82, 101, 113, 117, 101, 115, 116, 32, 116, 105, 109, 101, 100, 32, 111,
    117, 116, 46, 32, 80, 108, 101, 97, 115, 101, 32, 116, 114, 121, 32, 97, 103, 97, 105,
    110, 46>>

ReplyServerError == <<83, 101, 114, 118, 101, 114, 32, 101, 114, 114, 111, 114, 46, 32, 80,
    108, 101, 97, 115, 101, 32, 116, 114, 121, 32, 97, 103, 97, 105, 110, 46>>

hinglish_words ==
    << <<107, 121, 97>>,
       <<104, 97, 105>>,
       <<107, 97, 105, 115, 101>>,
       <<116, 117, 109>>,
       <<104, 97, 97, 110>>,
       <<109, 101>>,
       <<110, 104, 105>>,
       <<104, 110, 110>>,
       <<107, 121, 117>>,
       <<107, 97, 104, 97, 110>>,
       <<107, 97, 117, 110>>,
       <<109, 101, 114, 97>>,
       <<116, 101, 114, 97>>,
       <<98, 97, 116, 97, 111>>,
       <<107, 97, 114>>,
       <<114, 97, 104, 97>> >>

(***************************************************************************)
(* Text helpers.                                                           *)
(***************************************************************************)
Rep(c, n) == [i \in 1..n |-> c]

Last(s) == s[Len(s)]

Front(s) == SubSeq(s, 1, Len(s) - 1)

\* str.isspace for the characters of the model's alphabet
IsSpace(c) == c \in {9, 10, 11, 12, 13, 28, 29, 30, 31, 32, 133, 160}

\* str.strip(): drop leading and trailing whitespace
Strip(s) ==
    IF \A i \in 1..Len(s) : IsSpace(s[i]) THEN <<>>
    ELSE LET first == CHOOSE i \in 1..Len(s) :
                        /\ ~IsSpace(s[i])
                        /\ \A j \in 1..(i - 1) : IsSpace(s[j])
             back  == CHOOSE k \in 0..(Len(s) - 1) :
                        /\ ~IsSpace(s[Len(s) - k])
                        /\ \A j \in 0..(k - 1) : IsSpace(s[Len(s) - j])
         IN  SubSeq(s, first, Len(s) - back)

\* str.lower() on the model's alphabet (ASCII letters; other characters of
\* the alphabet have no lower-case form)
LowerChar(c) == IF c >= 65 /\ c <= 90 THEN c + 32 ELSE c

Lower(s) == [i \in 1..Len(s) |-> LowerChar(s[i])]

\* word in text
Contains(text, word) ==
    \E i \in 1..(Len(text) - Len(word) + 1) :
        /\ text[i] = word[1]
        /\ SubSeq(text, i, i + Len(word) - 1) = word

\* the marker words looked for before the script
detect_language_words_first(text) ==
    IF \E k \in 1..Len(hinglish_words) :
           Contains(Lower(text), hinglish_words[k])
    THEN "hinglish"
    ELSE IF \E i \in 1..Len(text) : text[i] >= 2304 /\ text[i] <= 2431
         THEN "hindi"
         ELSE "english"

\* app.py:74-83
detect_language(text) ==
    IF \E i \in 1..Len(text) : text[i] >= 2304 /\ text[i] <= 2431
    THEN "hindi"
    ELSE IF \E k \in 1..Len(hinglish_words) :
                Contains(Lower(text), hinglish_words[k])
         THEN "hinglish"
         ELSE "english"

\* the language's line added to a prompt of the session's own
generate_system_prompt_appends(language, custom_prompt) ==
    IF language = "hinglish" THEN custom_prompt \o base_rules \o HinglishSuffix
    ELSE IF language = "hindi" THEN custom_prompt \o base_rules \o HindiSuffix
    ELSE custom_prompt \o base_rules \o EnglishSuffix

\* app.py:88-108
generate_system_prompt(language, custom_prompt) ==
    IF custom_prompt # <<>> THEN custom_prompt
    ELSE IF language = "hinglish" THEN base_rules \o HinglishSuffix
    ELSE IF language = "hindi" THEN base_rules \o HindiSuffix
    ELSE base_rules \o EnglishSuffix

\* app.py:110-114
generate_chat_title(first_message) ==
    LET stripped == Strip(first_message)
        title == SubSeq(stripped, 1,
                        IF Len(stripped) < TitleLen THEN Len(stripped) ELSE TitleLen)
    IN  IF Len(first_message) > TitleLen THEN title \o Ellipsis ELSE title

(***************************************************************************)
(* Inputs.                                                                 *)
(***************************************************************************)
Threads == {1, 2}

\* the single worker of a server that handles one request at a time
SerialThreads == {1}

\* user ids held in the login session (the auth routes are not modelled:
\* every caller below is authenticated)
Users == {"u1", "u2"}

NoSession == 0

SessionRefs == 0..MaxSessions

NoModel == ""

ModelInputs == {NoModel, "bogus/model"}

PromptInputs == {<<>>, <<66, 101, 32, 116, 101, 114, 115, 101, 46>>}

TitleInputs == {<<116, 49>>}

\* "", " ", " Kya ", 1200 x's and a blank, 1201 x's
MessageInputs ==
    { <<>>, <<32>>, <<32, 75, 121, 97, 32>>,
      Rep(120, MaxMessageLen) \o <<32>>, Rep(120, MaxMessageLen + 1) }

\* the characters of the texts detect_language is called on by itself:
\* K y a m e, blank, the first and the last character of the Devanagari
\* block (U+0900, U+097F) and the characters next to the block on each side
LangAlphabet == {75, 121, 97, 109, 101, 32, 2303, 2304, 2431, 2432}

LangTexts == UNION {[1..n -> LangAlphabet] : n \in 0..MaxTextLen}

\* lengths of the history the first session starts with
InitLens == {2, HistoryWindow - 1, HistoryWindow + 2}

\* a provider response body: valid JSON or not, the shape of "choices", the
\* content of the first choice, usage.total_tokens (-1: no usage field)
Body(json, choices, content, total_tokens) ==
    [json |-> json, choices |-> choices, content |-> content,
     total_tokens |-> total_tokens]

NoBody == Body(FALSE, "absent", <<>>, -1)

Bodies ==
    { Body(TRUE, "text", <<32, 121, 101, 115, 10>>, 1000),
      Body(TRUE, "absent", <<>>, -1),
      Body(TRUE, "empty", <<>>, 1000),
      Body(TRUE, "no_message", <<>>, -1),
      Body(TRUE, "no_content", <<>>, -1),
      Body(FALSE, "absent", <<>>, -1) }

\* what one requests.post can do: return a status, time out, or raise
\* another requests exception (connection error)
ProviderOutcomes ==
    { [kind |-> "status", code |-> 200],
      [kind |-> "status", code |-> 500],
      [kind |-> "timeout", code |-> 0],
      [kind |-> "error", code |-> 0] }

(***************************************************************************)
(* State.                                                                  *)
(***************************************************************************)
VARIABLES
    chat_sessions,   \* app.py:30  session id -> session record
    chat_messages,   \* app.py:31  session id -> list of messages
    token_usage,     \* app.py:32  list of usage entries
    now,             \* the value datetime.now() returned last
    nextSid,         \* next session id generate_id returns
    requests,        \* state-changing requests accepted so far
    deleting,        \* sessions between the two del statements of delete_session
    last,            \* the session route being handled and its response
    th,              \* per request thread: position and locals of chat()
    classify         \* a call of detect_language: its text and its result

vars == <<chat_sessions, chat_messages, token_usage, now, nextSid, requests,
          deleting, last, th, classify>>

stores == <<chat_sessions, chat_messages, token_usage>>

\* datetime.now() returns v: the clock never runs backwards
ClockRead(v) ==
    /\ v \in {now, now + 1}
    /\ v <= MaxClock
    /\ now' = v

Put(f, k, v) == [x \in DOMAIN f \cup {k} |-> IF x = k THEN v ELSE f[x]]

Del(f, k) == [x \in DOMAIN f \ {k} |-> f[x]]

Message(id, role, content, created_at) ==
    [id |-> id, role |-> role, content |-> content, created_at |-> created_at]

NoMsg == Message([turn |-> 0, n |-> 0], "", <<>>, 0)

\* app.py:234-245, 521-532
NewSession(id, user_id, title, model, system_prompt, t) ==
    [id |-> id, user_id |-> user_id, title |-> title, model |-> model,
     system_prompt |-> system_prompt, is_archived |-> FALSE,
     is_pinned |-> FALSE, created_at |-> t, updated_at |-> t,
     message_count |-> 0]

\* the session route being handled: its caller, the session id of its URL
\* and the status of its response (0: not answered yet)
NoLast == [op |-> "", status |-> 0, uid |-> "", sid |-> 0]

NoResp == [status |-> 0, success |-> FALSE, reply |-> <<>>, session_id |-> 0,
           tokens_used |-> 0]

ErrorResp(status, reply) ==
    [status |-> status, success |-> FALSE, reply |-> reply, session_id |-> 0,
     tokens_used |-> 0]

\* the stores as the request found them
Snapshot ==
    [sessions |-> chat_sessions, messages |-> chat_messages,
     usage |-> token_usage]

\* no call of detect_language on its own is followed
NoClassify == [text |-> <<>>, language |-> ""]

IdleThread ==
    [pc |-> "idle", user_id |-> "", raw |-> <<>>, has_sid |-> FALSE,
     system_prompt |-> <<>>, regenerate |-> FALSE, user_message |-> <<>>, session_id |-> NoSession,
     newmsg |-> NoMsg, conversation |-> <<>>,
     attempt |-> 0, response |-> 0, body |-> NoBody, reply_text |-> <<>>, tokens_used |-> 0,
     resp |-> NoResp, turn |-> 0, calls |-> 0, outcomes |-> <<>>,
     pre |-> [sessions |-> <<>>, messages |-> <<>>, usage |-> <<>>]]

\* the history the first session starts with: alternating user and
\* assistant messages with distinct contents ("q01", "r02", ...)
InitMsg(i) ==
    Message([turn |-> 0, n |-> i],
            IF i % 2 = 1 THEN "user" ELSE "assistant",
            <<IF i % 2 = 1 THEN 113 ELSE 114, 48 + (i \div 10), 48 + (i % 10)>>,
            0)

\* the service with one session of u1, created with one of `prompts` as its
\* system_prompt (line 526) and holding a history of turns made before
InitWith(prompts) ==
    /\ \E h \in InitLens, system_prompt \in prompts :
         /\ chat_sessions =
              Put(<<>>, 1,
                  [NewSession(1, "u1", generate_chat_title(InitMsg(1).content),
                              DEFAULT_MODEL, system_prompt, 0)
                     EXCEPT !.message_count = h - (h % 2)])
         /\ chat_messages = Put(<<>>, 1, [i \in 1..h |-> InitMsg(i)])
         /\ token_usage =
              [i \in 1..(h \div 2) |->
                 [user_id |-> "u1", session_id |-> 1, tokens |-> 0, cost |-> 0]]
    /\ now = 0
    /\ nextSid = 2
    /\ requests = 0
    /\ deleting = {}
    /\ last = NoLast
    /\ th = [t \in Threads |-> IdleThread]
    /\ classify = NoClassify

Init == InitWith({<<>>})

(***************************************************************************)
(* Pieces of chat() (app.py:495-645).                                      *)
(***************************************************************************)
\* app.py:509  if not user_message and not regenerate
EmptyRejected(user_message, regenerate) == user_message = <<>> /\ ~regenerate

\* the limit taken one too high
TooLongOffByOne(user_message) == Len(user_message) > MaxMessageLen + 1

\* app.py:512  if len(user_message) > 1200
TooLong(user_message) == Len(user_message) > MaxMessageLen

\* app.py:516-518
ResolveModel(model) ==
    IF model = NoModel \/ model \notin DOMAIN AVAILABLE_MODELS
    THEN DEFAULT_MODEL ELSE model

\* the owner not compared
SessionExists(sid, user_id) == sid \in DOMAIN chat_sessions

\* app.py:535-536 (and the same test in every session route)
SessionVisible(sid, user_id) ==
    /\ sid \in DOMAIN chat_sessions
    /\ chat_sessions[sid].user_id = user_id

\* any list that is not empty taken as one that ends with a reply
CanRegenerateNonEmpty(msgs) == msgs # <<>>

\* app.py:541
CanRegenerate(msgs) ==
    /\ Len(msgs) >= 2
    /\ Last(msgs).role = "assistant"

\* the old reply left in place
PopNothing(msgs) == msgs

\* the reply taken off together with the message before it
PopTwo(msgs) == Front(Front(msgs))

\* app.py:542  chat_messages[session_id].pop()
PopLast(msgs) == Front(msgs)

\* the user message never stored
AfterTouchSkipsUser(regenerate) == "assemble"

\* app.py:549  if not regenerate: where chat() goes after line 547
AfterTouch(regenerate) == IF regenerate THEN "assemble" ELSE "mk_user"

\* the message put at the head of the list
AppendMessageFront(msgs, m) == <<m>> \o msgs

\* an empty list seeded with the system prompt
AppendMessageSeeded(msgs, m) ==
    IF msgs = <<>>
    THEN <<Message(m.id, "system", base_rules, m.created_at), m>>
    ELSE Append(msgs, m)

\* app.py:550, 625  list.append
AppendMessage(msgs, m) == Append(msgs, m)

\* the whole list sent
HistoryAll(msgs) == msgs

\* the slice [:20] in place of [-20:]
HistoryOldest(msgs) ==
    IF Len(msgs) <= HistoryWindow THEN msgs
    ELSE SubSeq(msgs, 1, HistoryWindow)

\* app.py:558  chat_messages[session_id][-20:]
History(msgs) ==
    IF Len(msgs) <= HistoryWindow THEN msgs
    ELSE SubSeq(msgs, Len(msgs) - HistoryWindow + 1, Len(msgs))

\* app.py:560-565
BuildConversation(system_prompt, history) ==
    <<[role |-> "system", content |-> system_prompt]>>
    \o [i \in 1..Len(history) |->
          [role |-> history[i].role, content |-> history[i].content]]

\* a timeout on the last attempt reported like a bad status
AttemptResultTimeoutAs503(attempt, outcome) ==
    IF outcome.kind = "status" /\ outcome.code = 200 THEN "break"
    ELSE IF outcome.kind \in {"status", "timeout"} THEN
        IF attempt = MaxAttempts - 1 THEN "503" ELSE "retry"
    ELSE "500"

\* the two failure kinds of the last attempt taken for each other
AttemptResultKindsSwapped(attempt, outcome) ==
    IF outcome.kind = "status" THEN
        IF outcome.code = 200 THEN "break"
        ELSE IF attempt = MaxAttempts - 1 THEN "504"
        ELSE "retry"
    ELSE IF outcome.kind = "timeout" THEN
        IF attempt = MaxAttempts - 1 THEN "503" ELSE "retry"
    ELSE "500"

\* the last attempt's bad status not returned: the loop ends and the
\* handler goes on to read the response
AttemptResultFallsThrough(attempt, outcome) ==
    IF outcome.kind = "status" THEN
        IF outcome.code = 200 \/ attempt = MaxAttempts - 1 THEN "break"
        ELSE "retry"
    ELSE IF outcome.kind = "timeout" THEN
        IF attempt = MaxAttempts - 1 THEN "504" ELSE "retry"
    ELSE "500"

\* app.py:582-608: what the loop does after one attempt
AttemptResult(attempt, outcome) ==
    IF outcome.kind = "status" THEN
        IF outcome.code = 200 THEN "break"
        ELSE IF attempt = MaxAttempts - 1 THEN "503"
        ELSE "retry"
    ELSE IF outcome.kind = "timeout" THEN
        IF attempt = MaxAttempts - 1 THEN "504" ELSE "retry"
    ELSE "500"

\* app.py:610-612: FALSE when json(), [0], .get or .strip raises
ReplyExtractable(body) ==
    /\ body.json
    /\ body.choices \in {"absent", "no_message", "no_content", "text"}

ExtractReply(body) ==
    IF body.choices = "text" THEN Strip(body.content)
    ELSE Strip(NoResponseText)

\* app.py:614
ExtractTokens(body) ==
    IF body.total_tokens < 0 THEN 0 ELSE body.total_tokens

\* app.py:615-616, in units of 10^-7 dollars
Cost(tokens_used, model) ==
    tokens_used * (IF model \in DOMAIN AVAILABLE_MODELS
                   THEN AVAILABLE_MODELS[model] ELSE FallbackCostPer1k)

Respond(t, resp) ==
    th' = [th EXCEPT ![t].pc = "done", ![t].resp = resp]

\* the exception leaving the handler: the thread ends with no response
ServerErrorUncaught(t) == th' = [th EXCEPT ![t].pc = "raised"]

\* app.py:643-645
ServerError(t) == Respond(t, ErrorResp(500, ReplyServerError))

(***************************************************************************)
(* chat(), lines 497-537: validation and session resolution.               *)
(***************************************************************************)
\* a request whose message is one of `messages`
ChatReceiveFrom(t, messages) ==
    /\ th[t].pc = "idle"
    /\ \E uid \in Users, has_data \in BOOLEAN, message \in messages,
          sref \in SessionRefs, regenerate \in BOOLEAN, model \in ModelInputs,
          system_prompt \in PromptInputs :
        LET user_message == Strip(message)
            \* the locals a request rejected by lines 500-513 has used
            parsed == [IdleThread EXCEPT
                         !.user_id = uid,
                         !.raw = message, !.regenerate = regenerate,
                         !.user_message = user_message, !.pre = Snapshot]
            req == [parsed EXCEPT !.has_sid = (sref # NoSession),
                                  !.session_id = sref]
            reject(r, status, reply) ==
                /\ th' = [th EXCEPT ![t] =
                            [r EXCEPT !.pc = "done",
                                      !.resp = ErrorResp(status, reply)]]
                /\ UNCHANGED <<chat_sessions, chat_messages, token_usage, now,
                               nextSid, requests, deleting, last, classify>>
            accept(sid) ==
                th' = [th EXCEPT ![t] =
                         [req EXCEPT !.session_id = sid, !.turn = requests + 1,
                                     !.system_prompt = system_prompt,
                                     !.pc = IF regenerate THEN "regen_check"
                                            ELSE "touch"]]
        IN  IF ~has_data THEN
                /\ message = <<>> /\ sref = NoSession /\ ~regenerate
                /\ model = NoModel /\ system_prompt = <<>>
                /\ reject(parsed, 400, ReplyInvalidRequest)
            ELSE IF EmptyRejected(user_message, regenerate) THEN
                reject(req, 400, ReplyEmptyMessage)
            ELSE IF TooLong(user_message) THEN
                reject(req, 400, ReplyTooLong)
            ELSE IF sref = NoSession THEN
                /\ nextSid <= MaxSessions
                /\ \E v \in 0..MaxClock :
                     /\ ClockRead(v)
                     /\ chat_sessions' =
                          Put(chat_sessions, nextSid,
                              NewSession(nextSid, uid,
                                         generate_chat_title(user_message),
                                         ResolveModel(model), system_prompt, v))
                /\ chat_messages' = Put(chat_messages, nextSid, <<>>)
                /\ nextSid' = nextSid + 1
                /\ requests' = requests + 1
                /\ accept(nextSid)
                /\ UNCHANGED <<token_usage, deleting, last, classify>>
            ELSE IF ~SessionVisible(sref, uid) THEN
                reject(req, 404, ReplySessionNotFound)
            ELSE
                /\ requests' = requests + 1
                /\ accept(sref)
                /\ UNCHANGED <<chat_sessions, chat_messages, token_usage, now,
                               nextSid, deleting, last, classify>>

ChatReceive(t) == ChatReceiveFrom(t, MessageInputs)

(***************************************************************************)
(* chat(), lines 539-545: regenerate.                                      *)
(***************************************************************************)
\* lines 540-541, 545
ChatRegenCheck(t) ==
    /\ th[t].pc = "regen_check"
    /\ LET sid == th[t].session_id
           msgs == IF sid \in DOMAIN chat_messages
                   THEN chat_messages[sid] ELSE <<>>
       IN  IF CanRegenerate(msgs)
           THEN th' = [th EXCEPT ![t].pc = "regen_pop"]
           ELSE Respond(t, ErrorResp(400, ReplyNothingToRegenerate))
    /\ UNCHANGED <<chat_sessions, chat_messages, token_usage, now, nextSid,
                   requests, deleting, last, classify>>

\* line 542: KeyError when the list is gone, IndexError when it is empty
ChatRegenPop(t) ==
    /\ th[t].pc = "regen_pop"
    /\ LET sid == th[t].session_id
       IN  IF sid \notin DOMAIN chat_messages \/ chat_messages[sid] = <<>>
           THEN /\ ServerError(t)
                /\ UNCHANGED chat_messages
           ELSE /\ chat_messages' =
                     [chat_messages EXCEPT ![sid] = PopLast(@)]
                /\ th' = [th EXCEPT ![t].pc = "regen_read"]
    /\ UNCHANGED <<chat_sessions, token_usage, now, nextSid, requests, deleting,
                   last, classify>>

\* line 543: msgs is the list object itself, read as it is now.  Once the
\* list has been deleted the read is of an orphaned object and line 547
\* raises KeyError whatever was read.
ChatRegenRead(t) ==
    /\ th[t].pc = "regen_read"
    /\ LET sid == th[t].session_id
       IN  IF sid \notin DOMAIN chat_messages \/ chat_messages[sid] = <<>>
           THEN ServerError(t)
           ELSE th' = [th EXCEPT
                         ![t].user_message = Last(chat_messages[sid]).content,
                         ![t].pc = "touch"]
    /\ UNCHANGED <<chat_sessions, chat_messages, token_usage, now, nextSid,
                   requests, deleting, last, classify>>

(***************************************************************************)
(* chat(), lines 547-579.                                                  *)
(***************************************************************************)
\* line 547
ChatTouch(t) ==
    /\ th[t].pc = "touch"
    /\ LET sid == th[t].session_id
       IN  IF sid \notin DOMAIN chat_sessions
           THEN /\ ServerError(t)
                /\ UNCHANGED <<chat_sessions, now>>
           ELSE /\ \E v \in 0..MaxClock :
                     /\ ClockRead(v)
                     /\ chat_sessions' =
                          [chat_sessions EXCEPT ![sid].updated_at = v]
                /\ th' = [th EXCEPT ![t].pc = AfterTouch(th[t].regenerate)]
    /\ UNCHANGED <<chat_messages, token_usage, nextSid, requests, deleting,
                   last, classify>>

\* lines 550-555, up to the call of append: the list is looked up, then the
\* message is built
ChatMakeUserMsg(t) ==
    /\ th[t].pc = "mk_user"
    /\ IF th[t].session_id \notin DOMAIN chat_messages
       THEN /\ ServerError(t)
            /\ UNCHANGED now
       ELSE \E v \in 0..MaxClock :
            /\ ClockRead(v)
            /\ th' = [th EXCEPT
                        ![t].newmsg = Message([turn |-> th[t].turn, n |-> 1],
                                              "user", th[t].user_message, v),
                        ![t].pc = "append_user"]
    /\ UNCHANGED <<chat_sessions, chat_messages, token_usage, nextSid,
                   requests, deleting, last, classify>>

\* line 550: append to the list object (a list deleted meanwhile takes the
\* message with it)
ChatAppendUser(t) ==
    /\ th[t].pc = "append_user"
    /\ LET sid == th[t].session_id
       IN  chat_messages' =
             IF sid \in DOMAIN chat_messages
             THEN [chat_messages EXCEPT ![sid] = AppendMessage(@, th[t].newmsg)]
             ELSE chat_messages
    /\ th' = [th EXCEPT ![t].pc = "assemble"]
    /\ UNCHANGED <<chat_sessions, token_usage, now, nextSid, requests, deleting,
                   last, classify>>

\* lines 558-579; params_ok: float(temperature) and int(max_tokens) of
\* lines 577-578 do not raise
ChatAssemble(t) ==
    /\ th[t].pc = "assemble"
    /\ \E params_ok \in BOOLEAN :
       LET sid == th[t].session_id
       IN  IF \/ sid \notin DOMAIN chat_messages
              \/ sid \notin DOMAIN chat_sessions
              \/ ~params_ok
           THEN ServerError(t)
           ELSE LET history == History(chat_messages[sid])
                    language == detect_language(th[t].user_message)
                    system_prompt ==
                        generate_system_prompt(language,
                                               chat_sessions[sid].system_prompt)
                IN  th' = [th EXCEPT
                             ![t].conversation =
                                 BuildConversation(system_prompt, history),
                             ![t].attempt = 0,
                             ![t].pc = "call"]
    /\ UNCHANGED <<chat_sessions, chat_messages, token_usage, now, nextSid,
                   requests, deleting, last, classify>>

(***************************************************************************)
(* chat(), lines 582-608: one pass of the retry loop.                      *)
(***************************************************************************)
ChatProviderCall(t) ==
    /\ th[t].pc = "call"
    /\ \E outcome \in ProviderOutcomes :
        LET called == [th[t] EXCEPT
                         !.calls = @ + 1,
                         !.response = IF outcome.kind = "status"
                                      THEN outcome.code ELSE @,
                         !.outcomes = Append(@, IF outcome.kind = "status"
                                                THEN IF outcome.code = 200
                                                     THEN "200" ELSE "bad"
                                                ELSE outcome.kind)]
            result == AttemptResult(th[t].attempt, outcome)
        IN  th' = [th EXCEPT ![t] =
                  CASE result = "break" ->
                         [called EXCEPT !.pc = "extract"]
                    [] result = "retry" ->
                         [called EXCEPT !.attempt = @ + 1]
                    [] result = "503" ->
                         [called EXCEPT !.pc = "done",
                                        !.resp = ErrorResp(503, ReplyUnavailable)]
                    [] result = "504" ->
                         [called EXCEPT !.pc = "done",
                                        !.resp = ErrorResp(504, ReplyTimedOut)]
                    [] OTHER ->
                         [called EXCEPT !.pc = "done",
                                        !.resp = ErrorResp(500, ReplyServerError)]]
    /\ UNCHANGED <<chat_sessions, chat_messages, token_usage, now, nextSid,
                   requests, deleting, last, classify>>

(***************************************************************************)
(* chat(), lines 610-641: recording the reply.                             *)
(***************************************************************************)
\* lines 610-623; body is what response.json() finds in the response
ChatExtract(t) ==
    /\ th[t].pc = "extract"
    /\ \E body \in Bodies :
       LET sid == th[t].session_id
       IN  IF ~ReplyExtractable(body) \/ sid \notin DOMAIN chat_sessions
           THEN /\ th' = [th EXCEPT ![t].pc = "done", ![t].body = body,
                                    ![t].resp = ErrorResp(500, ReplyServerError)]
                /\ UNCHANGED token_usage
           ELSE /\ token_usage' =
                     Append(token_usage,
                            [user_id |-> th[t].user_id, session_id |-> sid,
                             tokens |-> ExtractTokens(body),
                             cost |-> Cost(ExtractTokens(body),
                                           chat_sessions[sid].model)])
                /\ th' = [th EXCEPT ![t].body = body,
                                    ![t].reply_text = ExtractReply(body),
                                    ![t].tokens_used = ExtractTokens(body),
                                    ![t].pc = "mk_assistant"]
    /\ UNCHANGED <<chat_sessions, chat_messages, now, nextSid, requests, deleting,
                   last, classify>>

\* lines 625-630, up to the call of append
ChatMakeAssistantMsg(t) ==
    /\ th[t].pc = "mk_assistant"
    /\ IF th[t].session_id \notin DOMAIN chat_messages
       THEN /\ ServerError(t)
            /\ UNCHANGED now
       ELSE \E v \in 0..MaxClock :
            /\ ClockRead(v)
            /\ th' = [th EXCEPT
                        ![t].newmsg = Message([turn |-> th[t].turn, n |-> 2],
                                              "assistant", th[t].reply_text, v),
                        ![t].pc = "append_assistant"]
    /\ UNCHANGED <<chat_sessions, chat_messages, token_usage, nextSid,
                   requests, deleting, last, classify>>

\* line 625
ChatAppendAssistant(t) ==
    /\ th[t].pc = "append_assistant"
    /\ LET sid == th[t].session_id
       IN  chat_messages' =
             IF sid \in DOMAIN chat_messages
             THEN [chat_messages EXCEPT ![sid] = AppendMessage(@, th[t].newmsg)]
             ELSE chat_messages
    /\ th' = [th EXCEPT ![t].pc = "finish"]
    /\ UNCHANGED <<chat_sessions, token_usage, now, nextSid, requests, deleting,
                   last, classify>>

\* the count kept by adding the two messages of a turn
ChatFinishAddsTwo(t) ==
    /\ th[t].pc = "finish"
    /\ LET sid == th[t].session_id
       IN  IF sid \notin DOMAIN chat_messages \/ sid \notin DOMAIN chat_sessions
           THEN /\ ServerError(t)
                /\ UNCHANGED chat_sessions
           ELSE /\ chat_sessions' =
                     [chat_sessions EXCEPT ![sid].message_count = @ + 2]
                /\ Respond(t, [status |-> 200, success |-> TRUE,
                               reply |-> th[t].reply_text, session_id |-> sid,
                               tokens_used |-> th[t].tokens_used])
    /\ UNCHANGED <<chat_messages, token_usage, now, nextSid, requests, deleting,
                   last, classify>>

\* lines 632-641
ChatFinish(t) ==
    /\ th[t].pc = "finish"
    /\ LET sid == th[t].session_id
       IN  IF sid \notin DOMAIN chat_messages \/ sid \notin DOMAIN chat_sessions
           THEN /\ ServerError(t)
                /\ UNCHANGED chat_sessions
           ELSE /\ chat_sessions' =
                     [chat_sessions EXCEPT
                        ![sid].message_count = Len(chat_messages[sid])]
                /\ Respond(t, [status |-> 200, success |-> TRUE,
                               reply |-> th[t].reply_text, session_id |-> sid,
                               tokens_used |-> th[t].tokens_used])
    /\ UNCHANGED <<chat_messages, token_usage, now, nextSid, requests, deleting,
                   last, classify>>

\* the response has been sent; the thread takes the next request
ChatReturn(t) ==
    /\ th[t].pc = "done"
    /\ th' = [th EXCEPT ![t] = IdleThread]
    /\ UNCHANGED <<chat_sessions, chat_messages, token_usage, now, nextSid,
                   requests, deleting, last, classify>>

(***************************************************************************)
(* Session routes.                                                         *)
(***************************************************************************)
\* app.py:228-255
CreateSession ==
    /\ last = NoLast
    /\ nextSid <= MaxSessions
    /\ \E uid \in Users, title \in TitleInputs, model \in ModelInputs,
          system_prompt \in PromptInputs :
        /\ last' = [op |-> "create", status |-> 200, uid |-> uid,
                    sid |-> nextSid]
        /\ \E v \in 0..MaxClock :
             /\ ClockRead(v)
             /\ chat_sessions' =
                  Put(chat_sessions, nextSid,
                      NewSession(nextSid, uid, title,
                                 IF model = NoModel THEN DEFAULT_MODEL ELSE model,
                                 system_prompt, v))
        /\ chat_messages' = Put(chat_messages, nextSid, <<>>)
    /\ nextSid' = nextSid + 1
    /\ requests' = requests + 1
    /\ UNCHANGED <<token_usage, deleting, th, classify>>

NotFound(op, uid, sid) ==
    /\ last = NoLast
    /\ last' = [op |-> op, status |-> 404, uid |-> uid, sid |-> sid]
    /\ UNCHANGED <<chat_sessions, chat_messages, token_usage, now, nextSid,
                   requests, deleting, th, classify>>

\* app.py:259-276: the response carries the session and its messages
GetSession ==
    \E uid \in Users, sid \in SessionRefs \ {NoSession} :
        IF ~SessionVisible(sid, uid) THEN NotFound("get", uid, sid)
        ELSE /\ last = NoLast
             /\ last' = [op |-> "get", status |-> 200, uid |-> uid,
                         sid |-> sid]
             /\ UNCHANGED <<chat_sessions, chat_messages, token_usage, now,
                            nextSid, requests, deleting, th, classify>>

\* app.py:402-447: the file sent carries the session and its messages; the
\* text format reads the clock (line 424)
ExportSession ==
    \E uid \in Users, sid \in SessionRefs \ {NoSession},
       format_type \in {"json", "txt"} :
        IF ~SessionVisible(sid, uid) THEN NotFound("export", uid, sid)
        ELSE /\ last = NoLast
             /\ IF format_type = "txt"
                THEN \E v \in 0..MaxClock : ClockRead(v)
                ELSE UNCHANGED now
             /\ last' = [op |-> "export", status |-> 200, uid |-> uid,
                         sid |-> sid]
             /\ UNCHANGED <<chat_sessions, chat_messages, token_usage,
                            nextSid, requests, deleting, th, classify>>

\* app.py:280-288: the check and the first del
DeleteSession ==
    \E uid \in Users, sid \in SessionRefs \ {NoSession} :
        IF ~SessionVisible(sid, uid) THEN NotFound("delete", uid, sid)
        ELSE /\ last = NoLast
             /\ requests' = requests + 1
             /\ chat_sessions' = Del(chat_sessions, sid)
             /\ deleting' = deleting \cup {sid}
             /\ last' = [op |-> "delete", status |-> 0, uid |-> uid,
                         sid |-> sid]
             /\ UNCHANGED <<chat_messages, token_usage, now, nextSid, th,
                            classify>>

\* the message list left behind
DeleteMessagesKept ==
    \E sid \in deleting :
        /\ deleting' = deleting \ {sid}
        /\ last' = [last EXCEPT !.status = 200]
        /\ UNCHANGED <<chat_sessions, chat_messages, token_usage, now, nextSid,
                       requests, th, classify>>

\* app.py:289-292: the second del and the response
DeleteMessages ==
    \E sid \in deleting :
        /\ chat_messages' = Del(chat_messages, sid)
        /\ deleting' = deleting \ {sid}
        /\ last' = [last EXCEPT !.status = 200]
        /\ UNCHANGED <<chat_sessions, token_usage, now, nextSid, requests, th,
                       classify>>

\* app.py:299-314
RenameSession ==
    \E uid \in Users, sid \in SessionRefs \ {NoSession}, title \in TitleInputs :
        IF ~SessionVisible(sid, uid) THEN NotFound("rename", uid, sid)
        ELSE /\ last = NoLast
             /\ \E v \in 0..MaxClock :
                  /\ ClockRead(v)
                  /\ chat_sessions' =
                       [chat_sessions EXCEPT ![sid].title = title,
                                             ![sid].updated_at = v]
             /\ last' = [op |-> "rename", status |-> 200, uid |-> uid,
                         sid |-> sid]
             /\ requests' = requests + 1
             /\ UNCHANGED <<chat_messages, token_usage, nextSid, deleting, th, classify>>

\* app.py:318-336
ArchiveSession ==
    \E uid \in Users, sid \in SessionRefs \ {NoSession} :
        IF ~SessionVisible(sid, uid) THEN NotFound("archive", uid, sid)
        ELSE /\ last = NoLast
             /\ \E v \in 0..MaxClock :
                  /\ ClockRead(v)
                  /\ chat_sessions' =
                       [chat_sessions EXCEPT ![sid].is_archived = ~@,
                                             ![sid].updated_at = v]
             /\ last' = [op |-> "archive", status |-> 200, uid |-> uid,
                         sid |-> sid]
             /\ requests' = requests + 1
             /\ UNCHANGED <<chat_messages, token_usage, nextSid, deleting, th, classify>>

\* app.py:340-358
PinSession ==
    \E uid \in Users, sid \in SessionRefs \ {NoSession} :
        IF ~SessionVisible(sid, uid) THEN NotFound("pin", uid, sid)
        ELSE /\ last = NoLast
             /\ \E v \in 0..MaxClock :
                  /\ ClockRead(v)
                  /\ chat_sessions' =
                       [chat_sessions EXCEPT ![sid].is_pinned = ~@,
                                             ![sid].updated_at = v]
             /\ last' = [op |-> "pin", status |-> 200, uid |-> uid,
                         sid |-> sid]
             /\ requests' = requests + 1
             /\ UNCHANGED <<chat_messages, token_usage, nextSid, deleting, th, classify>>

\* the response of a session route has been sent
RouteReturn ==
    /\ last.op # ""
    /\ deleting = {}
    /\ last' = NoLast
    /\ UNCHANGED <<chat_sessions, chat_messages, token_usage, now, nextSid,
                   requests, deleting, th, classify>>

(***************************************************************************)
(* Specifications.                                                         *)
(***************************************************************************)
ChatStep(t) ==
    \/ ChatRegenCheck(t)
    \/ ChatRegenPop(t)
    \/ ChatRegenRead(t)
    \/ ChatTouch(t)
    \/ ChatMakeUserMsg(t)
    \/ ChatAppendUser(t)
    \/ ChatAssemble(t)
    \/ ChatProviderCall(t)
    \/ ChatExtract(t)
    \/ ChatMakeAssistantMsg(t)
    \/ ChatAppendAssistant(t)
    \/ ChatFinish(t)
    \/ ChatReturn(t)

SessionRoute ==
    \/ CreateSession
    \/ GetSession
    \/ ExportSession
    \/ DeleteSession
    \/ RenameSession
    \/ ArchiveSession
    \/ PinSession

\* no request is being handled
Quiet ==
    /\ \A t \in Threads : th[t].pc = "idle"
    /\ last = NoLast

\* the model follows at most MaxRequests requests that get past validation
\* and the ownership check; requests refused before that, and reads, are
\* not counted
Budget == requests' <= MaxRequests

\* one request at a time
Next ==
    \/ \E t \in SerialThreads : Quiet /\ ChatReceive(t) /\ Budget
    \/ \E t \in SerialThreads : ChatStep(t)
    \/ Quiet /\ SessionRoute /\ Budget
    \/ DeleteMessages
    \/ RouteReturn

Spec == Init /\ [][Next]_vars

\* a handler that has started keeps running: nothing in chat() waits for
\* anything but the provider call, which ends (timeout=60, line 587)
SpecLive == Spec /\ \A t \in SerialThreads : WF_vars(ChatStep(t))

(***************************************************************************)
(* Two requests handled by concurrent threads (the server runs its         *)
(* handlers in threads, app.py:660).  The course followed is the one of two *)
(* turns of the owner on one existing session that the provider answers at *)
(* once: each thread takes one request, which names the session, and the   *)
(* provider returns 200 with a reply on the first attempt.                 *)
(***************************************************************************)
\* the message of the requests followed: " Kya ", none with regenerate;
\* they carry no system_prompt, which line 526 reads for new sessions only
ConcMessage(regenerate) ==
    IF regenerate THEN <<>> ELSE <<32, 75, 121, 97, 32>>

ConcReceive(t) ==
    /\ ChatReceive(t)
    /\ th'[t].pc # "done"
    /\ th'[t].has_sid
    /\ th'[t].raw = ConcMessage(th'[t].regenerate)
    /\ th'[t].system_prompt = <<>>

ConcStep(t) ==
    \/ ChatRegenCheck(t)
    \/ ChatRegenPop(t)
    \/ ChatRegenRead(t)
    \/ ChatTouch(t)
    \/ ChatMakeUserMsg(t)
    \/ ChatAppendUser(t)
    \/ ChatAssemble(t) /\ th'[t].pc = "call"
    \/ ChatProviderCall(t) /\ th'[t].pc = "extract"
    \/ ChatExtract(t) /\ th'[t].body.choices = "text"
    \/ ChatMakeAssistantMsg(t)
    \/ ChatAppendAssistant(t)
    \/ ChatFinish(t)

NextConc ==
    \/ \E t \in Threads : ConcReceive(t)
    \/ \E t \in Threads : ConcStep(t)

SpecConc == Init /\ [][NextConc]_vars

(***************************************************************************)
(* A sequence of turns made one after another (no two overlap) by the      *)
(* callers on the first session, which holds one exchange, and on new      *)
(* sessions: turns that succeed, that fail at any step, regenerates.       *)
(***************************************************************************)
InitSeq ==
    /\ Init
    /\ \A sid \in DOMAIN chat_messages :
           \A h \in InitLens : Len(chat_messages[sid]) <= h

\* a request of u1 that gets past validation and the ownership check; its
\* message is " Kya " (none with regenerate) and it names no model and
\* carries no system_prompt
SeqReceive(t) ==
    /\ ChatReceive(t)
    /\ th'[t].pc # "done"
    /\ th'[t].user_id = "u1"
    /\ th'[t].raw = ConcMessage(th'[t].regenerate)
    /\ th'[t].system_prompt = <<>>
    /\ \A sid \in DOMAIN chat_sessions' :
           chat_sessions'[sid].model = DEFAULT_MODEL

NextSeq ==
    \/ \E t \in SerialThreads : Quiet /\ SeqReceive(t) /\ requests' <= MaxTurns
    \/ \E t \in SerialThreads : ChatStep(t)

SpecSeq == InitSeq /\ [][NextSeq]_vars

(***************************************************************************)
(* Turns in each language, on a session created with or without a          *)
(* system_prompt of its own and on new sessions, one request at a time,    *)
(* the provider answering the first attempt.                               *)
(***************************************************************************)
\* "Ok", " Kya ", a Devanagari letter, "Kya" and a Devanagari letter
PromptMessages ==
    { <<79, 107>>, <<32, 75, 121, 97, 32>>, <<2325>>,
      <<75, 121, 97, 32, 2325>> }

InitPrompt == InitWith(PromptInputs)

\* a request that gets past validation and the ownership check
PromptReceive(t) ==
    /\ ChatReceiveFrom(t, PromptMessages)
    /\ th'[t].pc # "done"

NextPrompt ==
    \/ \E t \in SerialThreads : Quiet /\ PromptReceive(t) /\ Budget
    \/ \E t \in SerialThreads : ConcStep(t)

SpecPrompt == InitPrompt /\ [][NextPrompt]_vars

(***************************************************************************)
(* detect_language called by itself (app.py:74-83) on every text of        *)
(* LangTexts, the stores being as the program starts them (app.py:29-32).  *)
(***************************************************************************)
InitLang ==
    /\ chat_sessions = <<>>
    /\ chat_messages = <<>>
    /\ token_usage = <<>>
    /\ now = 0
    /\ nextSid = 1
    /\ requests = 0
    /\ deleting = {}
    /\ last = NoLast
    /\ th = [t \in Threads |-> IdleThread]
    /\ \E text \in LangTexts : classify = [text |-> text, language |-> ""]

DetectLanguage ==
    /\ classify.language = ""
    /\ classify' = [classify EXCEPT !.language = detect_language(classify.text)]
    /\ UNCHANGED <<chat_sessions, chat_messages, token_usage, now, nextSid,
                   requests, deleting, last, th>>

SpecLang == InitLang /\ [][DetectLanguage]_vars

(***************************************************************************)
(* Properties of a chat turn, checked under Spec (one request at a time).  *)
(***************************************************************************)
Done(t) == th[t].pc = "done"

\* the request passed validation and session resolution
Accepted(t) == th[t].turn > 0

\* the provider has been called in this turn
IssuedCall(t) == th[t].calls > 0

\* the message list of the turn's session as the request found it (a session
\* the request created starts empty)
PreMsgs(t) ==
    IF th[t].session_id \in DOMAIN th[t].pre.messages
    THEN th[t].pre.messages[th[t].session_id] ELSE <<>>

\* the message list of the turn's session now
CurMsgs(t) ==
    IF th[t].session_id \in DOMAIN chat_messages
    THEN chat_messages[th[t].session_id] ELSE <<>>

StoresAsFound(t) ==
    /\ chat_sessions = th[t].pre.sessions
    /\ chat_messages = th[t].pre.messages
    /\ token_usage = th[t].pre.usage

RoleContent(m) == [role |-> m.role, content |-> m.content]

\* C1: a non-regenerate turn that succeeds leaves the session's list equal to
\* the list it found followed by the new user message and then the new
\* assistant message; one that ends in 503 or 504 leaves the list it found
\* followed by the user message only.
C1_TurnGrowth ==
    \A t \in Threads :
        (Done(t) /\ Accepted(t) /\ ~th[t].regenerate) =>
            LET before == PreMsgs(t)
                after == CurMsgs(t)
                n == Len(before)
            IN  /\ th[t].resp.status = 200 =>
                    /\ Len(after) = n + 2
                    /\ SubSeq(after, 1, n) = before
                    /\ RoleContent(after[n + 1]) =
                         [role |-> "user", content |-> th[t].user_message]
                    /\ RoleContent(after[n + 2]) =
                         [role |-> "assistant", content |-> th[t].resp.reply]
                /\ th[t].resp.status \in {503, 504} =>
                    /\ Len(after) = n + 1
                    /\ SubSeq(after, 1, n) = before
                    /\ RoleContent(after[n + 1]) =
                         [role |-> "user", content |-> th[t].user_message]

C1_Witness ==
    \E t \in Threads :
        /\ Done(t) /\ ~th[t].regenerate /\ th[t].resp.status = 200
        /\ Len(PreMsgs(t)) = HistoryWindow + 2
        /\ Len(CurMsgs(t)) = HistoryWindow + 4

\* C2: a turn on an existing session whose provider call fails (the turn
\* ends in 500, 503 or 504) leaves the session's updated_at as the request
\* found it.
C2_UpdatedAtOnlyWithReply ==
    \A t \in Threads :
        (/\ Done(t) /\ Accepted(t) /\ th[t].has_sid /\ IssuedCall(t)
         /\ th[t].resp.status \in {500, 503, 504}
         /\ th[t].session_id \in DOMAIN chat_sessions) =>
            chat_sessions[th[t].session_id].updated_at =
                th[t].pre.sessions[th[t].session_id].updated_at

\* C3: a regenerate request answered "Nothing to regenerate." leaves the
\* session store, the message lists and the usage log as it found them.
C3_NothingToRegenerateNoMutation ==
    \A t \in Threads :
        (/\ Done(t) /\ th[t].regenerate
         /\ th[t].resp.status = 400
         /\ th[t].resp.reply = ReplyNothingToRegenerate) =>
            StoresAsFound(t)

\* C4 as stated, for the message as the request carries it and a request
\* that is not a regenerate: when the message is longer than 1200 characters,
\* or empty, the request has changed nothing when it is answered: no session
\* created, no message persisted, no usage entry, no provider call.
C4_RawLengthRejected ==
    \A t \in Threads :
        (/\ Done(t) /\ ~th[t].regenerate
         /\ \/ Len(th[t].raw) > MaxMessageLen
            \/ th[t].raw = <<>>) =>
            /\ StoresAsFound(t)
            /\ ~IssuedCall(t)

\* C4 as amended: a request whose message, once leading and trailing
\* whitespace is stripped, is longer than 1200 characters, or is empty
\* without regenerate, is answered 400 with the stores untouched and no
\* provider call.
C4_StrippedLengthRejected ==
    \A t \in Threads :
        (/\ Done(t)
         /\ \/ Len(Strip(th[t].raw)) > MaxMessageLen
            \/ Strip(th[t].raw) = <<>> /\ ~th[t].regenerate) =>
            /\ th[t].resp.status = 400
            /\ ~th[t].resp.success
            /\ ~Accepted(t)
            /\ StoresAsFound(t)
            /\ ~IssuedCall(t)

C4_Witness ==
    \E t \in Threads :
        /\ Done(t)
        /\ Len(Strip(th[t].raw)) > MaxMessageLen
        /\ th[t].resp.status = 400
        /\ th[t].resp.reply = ReplyTooLong

Failed(o) == o \in {"bad", "timeout"}

\* C5: the provider is called at most 3 times in a turn, and a turn whose
\* first two attempts fail and whose third returns status 200 (here: with a
\* JSON body) ends with success and the assistant message stored.
C5_ThirdAttemptSucceeds ==
    \A t \in Threads :
        /\ th[t].calls <= MaxAttempts
        /\ (/\ Done(t)
            /\ th[t].body.json
            /\ Len(th[t].outcomes) = 3
            /\ Failed(th[t].outcomes[1]) /\ Failed(th[t].outcomes[2])
            /\ th[t].outcomes[3] = "200") =>
                /\ th[t].resp.status = 200
                /\ th[t].resp.success
                /\ CurMsgs(t) # <<>>
                /\ Last(CurMsgs(t)).id = [turn |-> th[t].turn, n |-> 2]

\* messages of the turn's session written by the turn itself
OwnMessages(t) ==
    {i \in 1..Len(CurMsgs(t)) : CurMsgs(t)[i].id.turn = th[t].turn}

\* C6: three non-200 statuses end the turn with 503, three timeouts with
\* 504, and in both cases the turn has written no assistant message and no
\* usage entry.
C6_ExhaustedAttempts ==
    \A t \in Threads :
        /\ (Done(t) /\ th[t].outcomes = <<"bad", "bad", "bad">>) =>
              /\ th[t].resp.status = 503
              /\ th[t].resp.reply = ReplyUnavailable
        /\ (Done(t) /\ th[t].outcomes = <<"timeout", "timeout", "timeout">>) =>
              /\ th[t].resp.status = 504
              /\ th[t].resp.reply = ReplyTimedOut
        /\ (Done(t) /\ th[t].outcomes \in {<<"bad", "bad", "bad">>,
                                           <<"timeout", "timeout", "timeout">>}) =>
              /\ ~th[t].resp.success
              /\ token_usage = th[t].pre.usage
              /\ \A i \in OwnMessages(t) : CurMsgs(t)[i].role = "user"
              /\ \A i \in 1..Len(CurMsgs(t)) :
                    CurMsgs(t)[i].role = "assistant" =>
                        \E j \in 1..Len(PreMsgs(t)) : PreMsgs(t)[j] = CurMsgs(t)[i]

C6_Witness ==
    \E t \in Threads :
        /\ Done(t)
        /\ th[t].outcomes = <<"timeout", "timeout", "timeout">>
        /\ th[t].resp.status = 504

\* the user message of turn t is in its session's list
UserMessageStored(t) ==
    \E i \in 1..Len(CurMsgs(t)) :
        /\ CurMsgs(t)[i].id = [turn |-> th[t].turn, n |-> 1]
        /\ RoleContent(CurMsgs(t)[i]) =
             [role |-> "user", content |-> th[t].user_message]

\* C7: in a non-regenerate turn the new user message is in the session's
\* list when the first provider attempt is made, and it is still there when
\* a turn that called the provider has ended.
C7_UserMessageBeforeCall ==
    \A t \in Threads :
        (/\ Accepted(t) /\ ~th[t].regenerate
         /\ \/ th[t].pc = "call"
            \/ IssuedCall(t)) =>
            UserMessageStored(t)

C7_Witness ==
    \E t \in Threads :
        /\ th[t].pc = "call" /\ th[t].attempt = 0 /\ th[t].calls = 0
        /\ ~th[t].regenerate
        /\ UserMessageStored(t)

\* the list the request found ends with a user message and an assistant one
EndsUserAssistant(msgs) ==
    /\ Len(msgs) >= 2
    /\ msgs[Len(msgs) - 1].role = "user"
    /\ msgs[Len(msgs)].role = "assistant"

Min(a, b) == IF a < b THEN a ELSE b

\* C8: a regenerate turn on a list ending [user u, assistant a] removes a,
\* sends a conversation that ends with {user, u} and consists of the system
\* entry and the newest messages of the list without a, and on success
\* leaves the list it found with a replaced by one new assistant message.
C8_Regenerate ==
    \A t \in Threads :
        (Accepted(t) /\ th[t].regenerate /\ EndsUserAssistant(PreMsgs(t))) =>
            LET before == PreMsgs(t)
                kept == Front(before)
                n == Min(HistoryWindow, Len(kept))
                conv == th[t].conversation
            IN  /\ th[t].pc \in {"regen_read", "touch", "assemble", "call",
                                 "extract", "mk_assistant", "append_assistant"}
                      => CurMsgs(t) = kept
                /\ th[t].pc \in {"call", "extract"} =>
                      /\ Len(conv) = n + 1
                      /\ conv[Len(conv)] =
                           [role |-> "user", content |-> Last(kept).content]
                      /\ \A i \in 1..n :
                            conv[1 + i] = RoleContent(kept[Len(kept) - n + i])
                /\ (Done(t) /\ th[t].resp.status = 200) =>
                      /\ Len(CurMsgs(t)) = Len(before)
                      /\ Front(CurMsgs(t)) = kept
                      /\ Last(CurMsgs(t)).id = [turn |-> th[t].turn, n |-> 2]
                      /\ RoleContent(Last(CurMsgs(t))) =
                           [role |-> "assistant", content |-> th[t].resp.reply]
                      /\ OwnMessages(t) = {Len(before)}

C8_Witness ==
    \E t \in Threads :
        /\ Done(t) /\ th[t].regenerate /\ th[t].resp.status = 200
        /\ Len(PreMsgs(t)) = HistoryWindow + 2
        /\ Len(th[t].conversation) = HistoryWindow + 1
        /\ Len(CurMsgs(t)) = HistoryWindow + 2

\* C9: the conversation sent to the provider has one system entry, which is
\* the first, and at most HistoryWindow + 2 entries.
C9_ConversationShape ==
    \A t \in Threads :
        th[t].pc \in {"call", "extract"} =>
            LET conv == th[t].conversation
            IN  /\ Len(conv) >= 1
                /\ conv[1].role = "system"
                /\ \A i \in 2..Len(conv) : conv[i].role # "system"
                /\ Len(conv) <= HistoryWindow + 2

C9_Witness ==
    \E t \in Threads :
        /\ th[t].pc = "call"
        /\ Len(CurMsgs(t)) > HistoryWindow
        /\ Len(th[t].conversation) = HistoryWindow + 1

\* C10: the entries after the system entry are the last min(20, k) messages
\* of the stored list of length k, in order, role and content unchanged, and
\* in a non-regenerate turn the last entry is the message just submitted.
C10_WindowIsNewest ==
    \A t \in Threads :
        th[t].pc = "call" =>
            LET msgs == CurMsgs(t)
                k == Len(msgs)
                n == Min(HistoryWindow, k)
                conv == th[t].conversation
            IN  /\ Len(conv) = n + 1
                /\ \A i \in 1..n : conv[1 + i] = RoleContent(msgs[k - n + i])
                /\ ~th[t].regenerate =>
                      conv[Len(conv)] =
                          [role |-> "user", content |-> Strip(th[t].raw)]

C10_Witness ==
    \E t \in Threads :
        /\ th[t].pc = "call" /\ ~th[t].regenerate
        /\ Len(CurMsgs(t)) = HistoryWindow + 3
        /\ th[t].conversation[2] = RoleContent(CurMsgs(t)[4])

(***************************************************************************)
(* The reply of a 200 response (app.py:610-612).                           *)
(***************************************************************************)
\* the 200 response of the turn carried JSON whose choice list is absent,
\* empty, or holds a first choice without message or without content
MalformedChoices(t) ==
    /\ th[t].body.json
    /\ th[t].body.choices \in {"absent", "empty", "no_message", "no_content"}

\* C11: a turn whose 200 response has a missing or malformed choice list
\* succeeds with the placeholder text as reply, stored as the assistant
\* message.
C11_MalformedChoicesPlaceholder ==
    \A t \in Threads :
        (Done(t) /\ MalformedChoices(t)) =>
            /\ th[t].resp.status = 200
            /\ th[t].resp.success
            /\ th[t].resp.reply = NoResponseText
            /\ CurMsgs(t) # <<>>
            /\ RoleContent(Last(CurMsgs(t))) =
                 [role |-> "assistant", content |-> NoResponseText]

(***************************************************************************)
(* Ownership (app.py:264, 285, 305, 323, 345, 408, 535-536).               *)
(***************************************************************************)
\* user u owns the session with id sid
Owns(u, sid) ==
    /\ sid \in DOMAIN chat_sessions
    /\ chat_sessions[sid].user_id = u

\* this step starts a session route on the session of its URL
RouteStarts == last.op = "" /\ last'.op \notin {"", "create"}

\* this step is the arrival of a chat request that carries a session_id
ChatArrives(t) ==
    th[t].pc = "idle" /\ th'[t].pc # "idle" /\ th'[t].has_sid

\* the request being handled after this step is one of user u
ActsFor(u) ==
    \/ last'.op # "" /\ last'.uid = u
    \/ \E t \in Threads : th'[t].pc # "idle" /\ th'[t].user_id = u

\* this step changes or removes session sid or its message list
Touches(sid) ==
    \/ sid \notin DOMAIN chat_sessions'
    \/ chat_sessions'[sid] # chat_sessions[sid]
    \/ /\ sid \in DOMAIN chat_messages
       /\ \/ sid \notin DOMAIN chat_messages'
          \/ chat_messages'[sid] # chat_messages[sid]

\* a step that changes a session is a step of a request of its owner
OwnerWritesOnly ==
    \A sid \in DOMAIN chat_sessions :
        Touches(sid) => ActsFor(chat_sessions[sid].user_id)

\* a session route on a session the caller does not own, or that does not
\* exist, answers 404 and changes no store
ForeignRouteRefused ==
    (RouteStarts /\ ~Owns(last'.uid, last'.sid)) =>
        /\ last'.status = 404
        /\ UNCHANGED stores

\* the message of the request fails the checks of lines 509-513
FailsValidation(r) ==
    \/ Strip(r.raw) = <<>> /\ ~r.regenerate
    \/ Len(Strip(r.raw)) > MaxMessageLen

\* C12 as stated: a get, delete, rename, archive, pin or export, or a chat
\* request with a session_id, whose caller does not own the session it names
\* (or that names no existing session) is answered 404 and changes no store;
\* and every step that changes a session belongs to a request of its owner.
C12_ForeignSessionNotFound ==
    [][/\ ForeignRouteRefused
       /\ \A t \in Threads :
            (ChatArrives(t) /\ ~Owns(th'[t].user_id, th'[t].session_id)) =>
                /\ th'[t].pc = "done"
                /\ th'[t].resp.status = 404
                /\ UNCHANGED stores
       /\ OwnerWritesOnly]_vars

\* C12 as amended: the same, except that a chat request whose message fails
\* validation is answered 400 before the session is looked up.
C12_ForeignSessionRefused ==
    [][/\ ForeignRouteRefused
       /\ \A t \in Threads :
            (ChatArrives(t) /\ ~Owns(th'[t].user_id, th'[t].session_id)) =>
                /\ th'[t].pc = "done"
                /\ th'[t].resp.status =
                     IF FailsValidation(th'[t]) THEN 400 ELSE 404
                /\ ~th'[t].resp.success
                /\ UNCHANGED stores
       /\ OwnerWritesOnly]_vars

C12_Witness ==
    \E t \in Threads :
        /\ Done(t) /\ th[t].has_sid
        /\ th[t].session_id \in DOMAIN chat_sessions
        /\ chat_sessions[th[t].session_id].user_id # th[t].user_id
        /\ ~FailsValidation(th[t])
        /\ th[t].resp.status = 404

(***************************************************************************)
(* Delete (app.py:280-292).                                                *)
(***************************************************************************)
\* sid was the id of a session that has been deleted: ids are given out once
\* (app.py:67-69) and only delete_session removes a session
Gone(sid) ==
    /\ sid \in 1..(nextSid - 1)
    /\ sid \notin DOMAIN chat_sessions
    /\ sid \notin deleting

\* this step is one of the steps of a delete that is not refused
DeleteStep == last' # last /\ last'.op = "delete" /\ last'.status # 404

\* a delete leaves every other session and message list as it was, and once
\* it has answered, the session and its message list are gone
DeleteCascades ==
    DeleteStep =>
        /\ \A s \in DOMAIN chat_sessions \ {last'.sid} :
             s \in DOMAIN chat_sessions' /\ chat_sessions'[s] = chat_sessions[s]
        /\ \A s \in DOMAIN chat_messages \ {last'.sid} :
             s \in DOMAIN chat_messages' /\ chat_messages'[s] = chat_messages[s]
        /\ last'.status = 200 =>
             /\ last'.sid \notin DOMAIN chat_sessions'
             /\ last'.sid \notin DOMAIN chat_messages'

\* a get of a deleted session answers 404
GetOfGoneRefused ==
    (last.op = "" /\ last'.op = "get" /\ Gone(last'.sid)) =>
        last'.status = 404 /\ UNCHANGED stores

C14_NoSystemMessageStored ==
    \A sid \in DOMAIN chat_messages :
        \A i \in 1..Len(chat_messages[sid]) :
            chat_messages[sid][i].role \in {"user", "assistant"}

\* a turn on a session it created has sent a system entry and stored both of
\* its messages
C14_Witness ==
    \E t \in Threads :
        /\ Done(t) /\ th[t].resp.status = 200 /\ ~th[t].has_sid
        /\ th[t].conversation[1].role = "system"
        /\ Len(CurMsgs(t)) = 2

(***************************************************************************)
(* Usage log and message count (app.py:614-632).                           *)
(***************************************************************************)
\* C15: a turn that succeeds has appended exactly one usage entry, for the
\* caller and the turn's session, and left the session's message_count equal
\* to the length of its message list; a turn that fails has appended none.
C15_UsagePerSuccess ==
    \A t \in Threads :
        Done(t) =>
            IF th[t].resp.status = 200
            THEN /\ Len(token_usage) = Len(th[t].pre.usage) + 1
                 /\ Front(token_usage) = th[t].pre.usage
                 /\ Last(token_usage).user_id = th[t].user_id
                 /\ Last(token_usage).session_id = th[t].session_id
                 /\ Last(token_usage).tokens = th[t].resp.tokens_used
                 /\ chat_sessions[th[t].session_id].message_count =
                      Len(chat_messages[th[t].session_id])
            ELSE token_usage = th[t].pre.usage

\* a regenerate has succeeded
C15_Witness ==
    \E t \in Threads :
        /\ Done(t) /\ th[t].regenerate /\ th[t].resp.status = 200
        /\ Len(token_usage) = Len(th[t].pre.usage) + 1
        /\ th[t].resp.tokens_used > 0

(***************************************************************************)
(* Turns that overlap on one session, checked under SpecConc.              *)
(***************************************************************************)
\* C16: in every message list, a message that comes earlier in the list was
\* not created later than one that comes after it.
C16_OrderedByCreation ==
    \A sid \in DOMAIN chat_messages :
        \A i, j \in 1..Len(chat_messages[sid]) :
            i < j => chat_messages[sid][i].created_at
                        <= chat_messages[sid][j].created_at

\* the text is the content of a message with role user that is in the list
\* of the turn's session, or was when the request arrived
StoredUserText(t, text) ==
    LET msgs == PreMsgs(t) \o CurMsgs(t)
    IN  \E i \in 1..Len(msgs) :
            msgs[i].role = "user" /\ msgs[i].content = text

\* C20: when a regenerate turn calls the provider, the text it resubmits
\* (the one its language was detected from) is the content of a stored user
\* message and is the last entry of the conversation, with role user.
C20_RegenerateResubmitsUserText ==
    \A t \in Threads :
        (th[t].regenerate /\ th[t].pc = "call") =>
            /\ StoredUserText(t, th[t].user_message)
            /\ Last(th[t].conversation) =
                 [role |-> "user", content |-> th[t].user_message]

(***************************************************************************)
(* detect_language (app.py:74-83), checked under SpecLang.                 *)
(***************************************************************************)
\* the text holds a character of the Devanagari block U+0900..U+097F
HasDevanagari(text) == \E i \in 1..Len(text) : text[i] \in 2304..2431

\* some stretch of the lower-cased text is one of the marker words
HasMarkerWord(text) ==
    \E i, j \in 1..Len(text) :
        \E k \in 1..Len(hinglish_words) :
            SubSeq(Lower(text), i, j) = hinglish_words[k]

\* C17: detect_language returns hindi for a text with a Devanagari
\* character, whatever else it holds; otherwise hinglish for a text whose
\* lower-cased form contains a marker word; otherwise english, and so
\* english for the empty text.
C17_DetectLanguage ==
    classify.language # "" =>
        /\ classify.language =
             IF HasDevanagari(classify.text) THEN "hindi"
             ELSE IF HasMarkerWord(classify.text) THEN "hinglish"
             ELSE "english"
        /\ classify.text = <<>> => classify.language = "english"

\* "me" followed by a Devanagari character has been classified
C17_Witness ==
    /\ classify.text = <<109, 101, 2304>>
    /\ classify.language = "hindi"

(***************************************************************************)
(* The system entry of a turn (app.py:560-563), checked under SpecPrompt.  *)
(***************************************************************************)
\* the text the turn is about: the stripped message of the request, or on
\* regenerate the user message the list ends with once the reply has been
\* taken off it
EffectiveText(t) ==
    IF th[t].regenerate
    THEN Last(chat_messages[th[t].session_id]).content
    ELSE Strip(th[t].raw)

\* lines 102-108
LanguageSuffix(language) ==
    CASE language = "hinglish" -> HinglishSuffix
      [] language = "hindi" -> HindiSuffix
      [] OTHER -> EnglishSuffix

\* what the session of the turn has as its system_prompt
StoredPrompt(t) == chat_sessions[th[t].session_id].system_prompt

\* C18: when a turn is about to call the provider, the first entry of the
\* conversation it sends has role system, and its content is the stored
\* system_prompt of the session when that is not empty (whatever the language
\* and whatever system_prompt the request carries), and otherwise the base
\* rules followed by the line of the language detected in the turn's text.
C18_SystemEntry ==
    \A t \in Threads :
        th[t].pc = "call" =>
            /\ th[t].conversation # <<>>
            /\ th[t].conversation[1] =
                 [role |-> "system",
                  content |->
                      IF StoredPrompt(t) # <<>>
                      THEN StoredPrompt(t)
                      ELSE base_rules
                             \o LanguageSuffix(detect_language(EffectiveText(t)))]

\* a turn in Hindi on an existing session that has a prompt of its own, the
\* request carrying a different one, is about to send the stored prompt
C18_Witness ==
    \E t \in Threads :
        /\ th[t].pc = "call"
        /\ th[t].has_sid
        /\ ~th[t].regenerate
        /\ detect_language(th[t].user_message) = "hindi"
        /\ StoredPrompt(t) # <<>>
        /\ th[t].system_prompt # StoredPrompt(t)
        /\ th[t].conversation[1].content = StoredPrompt(t)

(***************************************************************************)
(* Termination of a turn (app.py:582-608, 643-645), checked under          *)
(* SpecLive.                                                               *)
(***************************************************************************)
\* the statuses of the responses of chat()
ChatStatuses == {200, 400, 404, 500, 503, 504}

\* the handler has returned a response, having called the provider at most
\* MaxAttempts times
Answered(t) ==
    /\ th[t].pc = "done"
    /\ th[t].resp.status \in ChatStatuses
    /\ th[t].resp.success = (th[t].resp.status = 200)
    /\ th[t].calls <= MaxAttempts

\* C19: every chat request that has been received is answered: the handler
\* reaches its return with a success or with an error of status 400, 404,
\* 500, 503 or 504, after at most 3 calls of the provider, each call
\* returning a status, timing out or raising.
C19_TurnAnswered ==
    \A t \in SerialThreads : (th[t].pc # "idle") ~> Answered(t)

\* two attempts were retried and the third raised a connection error: the
\* turn is answered 500
C19_Witness ==
    \E t \in SerialThreads :
        /\ Answered(t)
        /\ th[t].calls = MaxAttempts
        /\ Last(th[t].outcomes) = "error"
        /\ th[t].resp.status = 500

(***************************************************************************)
(* message_count (app.py:531, 632), checked under Spec.                    *)
(***************************************************************************)
\* message_count of the session is the length of its list, in the given
\* stores
CountMatches(sessions, messages, sid) ==
    /\ sid \in DOMAIN sessions
    /\ sid \in DOMAIN messages
    /\ sessions[sid].message_count = Len(messages[sid])

\* the turn found its session with message_count equal to the length of
\* its list, or created the session
CountMatchedBefore(t) ==
    \/ ~th[t].has_sid
    \/ CountMatches(th[t].pre.sessions, th[t].pre.messages, th[t].session_id)

\* C21: when a turn has ended, the message_count of its session equals the
\* number of messages in the session's list, provided it did when the turn
\* began: whether the turn succeeded, failed or was a regenerate.
C21_MessageCountDerived ==
    \A t \in Threads :
        (Done(t) /\ Accepted(t) /\ CountMatchedBefore(t)) =>
            CountMatches(chat_sessions, chat_messages, th[t].session_id)

(***************************************************************************)
(* The order of roles in a message list (app.py:539-555, 625-630),         *)
(* checked under SpecSeq.                                                  *)
(***************************************************************************)
\* every assistant message of the list comes right after a user message,
\* and the list does not start with an assistant message
RepliesFollowUser(msgs) ==
    /\ msgs # <<>> => msgs[1].role = "user"
    /\ \A i \in 1..Len(msgs) :
          msgs[i].role = "assistant" => (i > 1 /\ msgs[i - 1].role = "user")

\* C22: with turns made one after another, in every message list each
\* assistant message is immediately preceded by a user message and a
\* non-empty list starts with a user message, whatever turns came before:
\* successful, failed or regenerate.
C22_RepliesFollowUser ==
    \A sid \in DOMAIN chat_messages : RepliesFollowUser(chat_messages[sid])

\* after a failed turn and a successful one the list of the first session
\* ends with two user messages and a reply
C22_Witness ==
    /\ Quiet
    /\ requests = MaxTurns
    /\ \E sid \in DOMAIN chat_messages :
          LET msgs == chat_messages[sid]
              n == Len(msgs)
          IN  /\ n > 3
              /\ msgs[n].role = "assistant"
              /\ msgs[n - 1].role = "user"
              /\ msgs[n - 2].role = "user"
              /\ msgs[n - 3].role = "assistant"

(***************************************************************************)
(* A regenerate that fails at the provider (app.py:539-545, 582-608),      *)
(* checked under SpecSeq.                                                  *)
(***************************************************************************)
\* the turn ended with an error after it had called the provider
FailedAtProvider(t) ==
    /\ Done(t)
    /\ IssuedCall(t)
    /\ th[t].resp.status \in {500, 503, 504}

\* the request was answered "Nothing to regenerate."
NothingToRegenerate(t) ==
    /\ Done(t)
    /\ th[t].resp.status = 400
    /\ th[t].resp.reply = ReplyNothingToRegenerate

\* C23: a regenerate that passed the test of line 541 and then failed at the
\* provider with 500, 503 or 504 leaves the list it found without its last
\* message (the reply is not put back), so that the list ends with the
\* message before it; and a regenerate that finds a list ending with a user
\* message, as the failed one leaves an alternating history, is answered
\* "Nothing to regenerate." and leaves the list as it is.
C23_FailedRegenerateKeepsPop ==
    \A t \in Threads :
        (th[t].regenerate /\ Accepted(t)) =>
            /\ FailedAtProvider(t) =>
                 /\ CurMsgs(t) = Front(PreMsgs(t))
                 /\ Len(CurMsgs(t)) = Len(PreMsgs(t)) - 1
                 /\ Last(CurMsgs(t)) = PreMsgs(t)[Len(PreMsgs(t)) - 1]
            /\ (Done(t) /\ PreMsgs(t) # <<>> /\ Last(PreMsgs(t)).role = "user") =>
                 /\ NothingToRegenerate(t)
                 /\ CurMsgs(t) = PreMsgs(t)

\* the second of two regenerates on the session that held one exchange: the
\* first failed and left the user message alone, the second is refused
C23_Witness ==
    \E t \in Threads :
        /\ th[t].regenerate
        /\ th[t].turn = MaxTurns
        /\ PreMsgs(t) = <<InitMsg(1)>>
        /\ NothingToRegenerate(t)
        /\ CurMsgs(t) = <<InitMsg(1)>>

(***************************************************************************)
(* The retry loop and the extraction (app.py:582-614), checked under Spec. *)
(***************************************************************************)
\* the handler is past the loop: it reads the response or has read it
PastLoop(t) ==
    th[t].pc \in {"extract", "mk_assistant", "append_assistant", "finish"}

\* C24: in a turn no provider call follows a call that returned 200; when
\* the handler is past the retry loop the last call returned 200 and
\* `response` is that response; and the reply and the token count of a
\* successful turn are those extracted from the body of that response.
C24_ExtractionOnlyFrom200 ==
    \A t \in Threads :
        /\ \A i \in 1..(Len(th[t].outcomes) - 1) : th[t].outcomes[i] # "200"
        /\ (PastLoop(t) \/ (Done(t) /\ th[t].resp.status = 200)) =>
              /\ th[t].outcomes # <<>>
              /\ Last(th[t].outcomes) = "200"
              /\ th[t].response = 200
        /\ (Done(t) /\ th[t].resp.status = 200) =>
              /\ th[t].resp.reply = ExtractReply(th[t].body)
              /\ th[t].resp.tokens_used = ExtractTokens(th[t].body)

\* a turn has succeeded on its third call, after a bad status and a timeout
C24_Witness ==
    \E t \in Threads :
        /\ Done(t)
        /\ th[t].resp.status = 200
        /\ th[t].outcomes = <<"bad", "timeout", "200">>
        /\ th[t].response = 200
        /\ th[t].resp.tokens_used > 0

(***************************************************************************)
(* The failure reported after three failed attempts (app.py:582-608),      *)
(* checked under Spec.                                                     *)
(***************************************************************************)
\* the three attempts of the turn failed, each with a bad status or a
\* timeout
ThreeFailed(t) ==
    /\ Len(th[t].outcomes) = MaxAttempts
    /\ \A i \in 1..MaxAttempts : Failed(th[t].outcomes[i])

\* C25: when the three attempts of a turn have failed with bad statuses and
\* timeouts in any mix, the turn is answered by the kind of the third alone:
\* 503 "Service temporarily unavailable" when the third returned a status
\* other than 200, 504 "Request timed out" when the third timed out.
C25_ThirdAttemptDecides ==
    \A t \in Threads :
        ThreeFailed(t) =>
            /\ Done(t)
            /\ ~th[t].resp.success
            /\ th[t].outcomes[MaxAttempts] = "bad" =>
                  /\ th[t].resp.status = 503
                  /\ th[t].resp.reply = ReplyUnavailable
            /\ th[t].outcomes[MaxAttempts] = "timeout" =>
                  /\ th[t].resp.status = 504
                  /\ th[t].resp.reply = ReplyTimedOut

\* two timeouts and then a bad status: the turn is answered 503
C25_Witness ==
    \E t \in Threads :
        /\ Done(t)
        /\ th[t].outcomes = <<"timeout", "timeout", "bad">>
        /\ th[t].resp.status = 503

====
